---------------------------- MODULE Spec2Model ----------------------------
(***************************************************************************)
(* Model of RAJA's CUDA loop-dispatch layer (forall_cuda.hxx): the four    *)
(* kernel entry points, the sixteen forall / forall_Icount dispatch        *)
(* templates over raw ranges, RangeSegments, raw indirection arrays and    *)
(* ListSegments, and the two IndexSet walkers.  The host thread advances   *)
(* statement by statement; the device executes the work items of every     *)
(* accepted launch in any order, concurrently with the host.               *)
(***************************************************************************)
EXTENDS Integers, Sequences, FiniteSets, Bags, TLC

(* ------------------------------ bounds -------------------------------- *)

\* Index_type and unsigned int are modelled IndexBits wide, size_t twice that.
IndexBits == 4
\* Largest length of a raw range or raw indirection array.
MaxLen == 3
\* Largest BLOCK_SIZE template argument (0 is included: cuda_exec<0> compiles).
MaxBlock == 2
\* Largest begin of a range.
MaxBegin == 1
\* Largest value stored in an indirection array.
MaxIdxVal == 1
\* Largest icount handed to a single counted dispatch.
MaxIcount == 1
\* Largest number of segments of an IndexSet, and largest segment length.
MaxSegs == 2
MaxSegLen == 2

(* --------------------------- integer widths --------------------------- *)

SizeBits == 2 * IndexBits

Pow2(n) == 2 ^ n

IndexMax == Pow2(IndexBits - 1) - 1

\* Conversion of an unsigned value to Index_type (int): two's complement.
ToIndexType(u) ==
  LET m == u % Pow2(IndexBits)
  IN  IF m > IndexMax THEN m - Pow2(IndexBits) ELSE m

\* Conversion of a size_t to unsigned int (the members of dim3).
ToUInt(n) == n % Pow2(IndexBits)

\* Conversion of an Index_type to size_t (sign extension, modulo 2^SizeBits).
ToSizeT(i) == i % Pow2(SizeBits)

(* ------------------------- kernel entry points ------------------------ *)

\* Index_type ii = blockDim.x * blockIdx.x + threadIdx.x;
\* computed in unsigned int, then stored in Index_type.
ThreadIndex(blockDim, blockIdx, threadIdx) ==
  ToIndexType((blockDim * blockIdx + threadIdx) % Pow2(IndexBits))

\* idx[ii]: the element when ii is a position of the array; any value otherwise
\* (a read past the array is undefined).
ReadIdx(idx, ii) ==
  IF ii >= 0 /\ ii < Len(idx) THEN {idx[ii + 1]} ELSE 0 .. MaxIdxVal

\* Each kernel yields the set of possible effects of one work item:
\* rd, the array positions it reads, and inv, the loop_body calls it makes.
NoOp == [rd |-> {}, inv |-> {}]

\* Mutant: the guard lets ii = len through.
forall_cuda_kernel_GuardOffByOne(begin, len, blockDim, blockIdx, threadIdx) ==
  LET ii == ThreadIndex(blockDim, blockIdx, threadIdx)
  IN  IF ii <= len
      THEN {[rd |-> {}, inv |-> {<<begin + ii>>}]}
      ELSE {NoOp}

forall_cuda_kernel(begin, len, blockDim, blockIdx, threadIdx) ==
  LET ii == ThreadIndex(blockDim, blockIdx, threadIdx)
  IN  IF ii < len
      THEN {[rd |-> {}, inv |-> {<<begin + ii>>}]}
      ELSE {NoOp}

\* Mutant: the running count is dropped from the first argument.
forall_Icount_cuda_kernel_NoIcount(begin, len, icount, blockDim, blockIdx, threadIdx) ==
  LET ii == ThreadIndex(blockDim, blockIdx, threadIdx)
  IN  IF ii < len
      THEN {[rd |-> {}, inv |-> {<<ii, ii + begin>>}]}
      ELSE {NoOp}

forall_Icount_cuda_kernel(begin, len, icount, blockDim, blockIdx, threadIdx) ==
  LET ii == ThreadIndex(blockDim, blockIdx, threadIdx)
  IN  IF ii < len
      THEN {[rd |-> {}, inv |-> {<<ii + icount, ii + begin>>}]}
      ELSE {NoOp}

\* Mutant: the guard lets the work item ii = length through.
forall_cuda_kernel_idx_GuardOffByOne(idx, length, blockDim, blockIdx, threadIdx) ==
  LET ii == ThreadIndex(blockDim, blockIdx, threadIdx)
  IN  IF ii <= length
      THEN {[rd |-> {ii}, inv |-> {<<v>>}] : v \in ReadIdx(idx, ii)}
      ELSE {NoOp}

\* Mutant: the index is threadIdx.x alone, the block offset forgotten.
forall_cuda_kernel_idx_NoBlockOffset(idx, length, blockDim, blockIdx, threadIdx) ==
  LET ii == ThreadIndex(blockDim, 0, threadIdx)
  IN  IF ii < length
      THEN {[rd |-> {ii}, inv |-> {<<v>>}] : v \in ReadIdx(idx, ii)}
      ELSE {NoOp}

forall_cuda_kernel_idx(idx, length, blockDim, blockIdx, threadIdx) ==
  LET ii == ThreadIndex(blockDim, blockIdx, threadIdx)
  IN  IF ii < length
      THEN {[rd |-> {ii}, inv |-> {<<v>>}] : v \in ReadIdx(idx, ii)}
      ELSE {NoOp}

\* Mutant: the count handed to loop_body is ii, the offset icount forgotten.
forall_Icount_cuda_kernel_idx_NoIcount(idx, length, icount, blockDim, blockIdx, threadIdx) ==
  LET ii == ThreadIndex(blockDim, blockIdx, threadIdx)
  IN  IF ii < length
      THEN {[rd |-> {ii}, inv |-> {<<ii, v>>}] : v \in ReadIdx(idx, ii)}
      ELSE {NoOp}

forall_Icount_cuda_kernel_idx(idx, length, icount, blockDim, blockIdx, threadIdx) ==
  LET ii == ThreadIndex(blockDim, blockIdx, threadIdx)
  IN  IF ii < length
      THEN {[rd |-> {ii}, inv |-> {<<ii + icount, v>>}] : v \in ReadIdx(idx, ii)}
      ELSE {NoOp}

(* ----------------------------- geometry ------------------------------- *)

\* Index_type len = end - begin;
RangeLen(begin, end) == ToIndexType(end - begin)

\* Mutant: the grid size is rounded down.
GridSize_RoundedDown(len, BLOCK_SIZE) == ToSizeT(len) \div BLOCK_SIZE

\* size_t gridSize = (len + BLOCK_SIZE - 1) / BLOCK_SIZE;  (BLOCK_SIZE > 0)
GridSize(len, BLOCK_SIZE) ==
  ((ToSizeT(len) + BLOCK_SIZE - 1) % Pow2(SizeBits)) \div BLOCK_SIZE

\* With BLOCK_SIZE = 0 the division is undefined: the value is arbitrary.
GridSizes(len, BLOCK_SIZE) ==
  IF BLOCK_SIZE = 0 THEN {0, 1} ELSE {GridSize(len, BLOCK_SIZE)}

(* ------------------------------ device -------------------------------- *)

\* The largest gridDim.x of the device: 2^31 - 1 for 32-bit int, the largest
\* Index_type at the model's width.
MaxGridDim == IndexMax

\* A launch <<<gridSize, BLOCK_SIZE>>> with an empty grid, a grid beyond the
\* device's limit or an empty block is an invalid configuration, which the
\* runtime rejects.
ValidConfig(gridSize, blockSize) ==
  gridSize >= 1 /\ gridSize <= MaxGridDim /\ blockSize >= 1

\* The work items of launch number l: one per (blockIdx.x, threadIdx.x).
WorkItems(l, gridSize, blockSize) ==
  {[l |-> l, b |-> b, t |-> t] : b \in 0 .. (gridSize - 1), t \in 0 .. (blockSize - 1)}

(* ------------------------------ domains ------------------------------- *)

NoIdx == << >>

Arrays(maxLen) == UNION {[1 .. n -> 0 .. MaxIdxVal] : n \in 0 .. maxLen}

\* A segment of an IndexSet, before the IndexSet numbers it.
RangeSegs == {[type |-> "RangeSegment", begin |-> b, end |-> e, idx |-> NoIdx] :
                b \in 0 .. MaxBegin, e \in 0 .. (MaxBegin + MaxSegLen)}

ListSegs == {[type |-> "ListSegment", begin |-> 0, end |-> 0, idx |-> a] :
               a \in Arrays(MaxSegLen)}

Segs == {s \in RangeSegs : s.end >= s.begin /\ s.end - s.begin <= MaxSegLen} \cup ListSegs

\* getLength() of a segment.
SegLength(s) == IF s.type = "RangeSegment" THEN s.end - s.begin ELSE Len(s.idx)

RECURSIVE TotalLength(_)
TotalLength(segs) ==
  IF segs = << >> THEN 0
  ELSE TotalLength(SubSeq(segs, 1, Len(segs) - 1)) + SegLength(segs[Len(segs)])

\* IndexSet: every segment's info carries getIcount(), the total length of the
\* segments pushed before it.
IndexSetOf(segs) ==
  [k \in 1 .. Len(segs) |->
     [type |-> segs[k].type, begin |-> segs[k].begin, end |-> segs[k].end,
      idx |-> segs[k].idx, icount |-> TotalLength(SubSeq(segs, 1, k - 1))]]

IndexSets == {IndexSetOf(s) : s \in UNION {[1 .. n -> Segs] : n \in 0 .. MaxSegs}}

(* ------------------------------- calls -------------------------------- *)

Fns == {"forall", "forall_Icount"}

Policies == {"cuda_exec", "cuda_exec_async"}

\* len is the length argument of the raw (idx, len) templates: the length of
\* the array, unless the caller hands over something else.
Call(fn, policy, dom, B, begin, end, idx, icount, segs) ==
  [fn |-> fn, policy |-> policy, dom |-> dom, B |-> B, begin |-> begin,
   end |-> end, idx |-> idx, len |-> Len(idx), icount |-> icount, segs |-> segs]

Icounts(fn) == IF fn = "forall_Icount" THEN 0 .. MaxIcount ELSE {0}

\* forall / forall_Icount over (begin, end) and over a RangeSegment.
RangeCalls ==
  {Call(fn, p, d, B, b, e, NoIdx, ic, << >>) :
     fn \in Fns, p \in Policies, d \in {"range", "RangeSegment"}, B \in 0 .. MaxBlock,
     b \in 0 .. MaxBegin, e \in 0 .. (MaxBegin + MaxLen), ic \in 0 .. MaxIcount}

\* forall / forall_Icount over (idx, len) and over a ListSegment; len is the
\* length of the array the caller hands over.
ArrayCalls ==
  {Call(fn, p, d, B, 0, 0, a, ic, << >>) :
     fn \in Fns, p \in Policies, d \in {"array", "ListSegment"}, B \in 0 .. MaxBlock,
     a \in Arrays(MaxLen), ic \in 0 .. MaxIcount}

\* forall / forall_Icount over an IndexSet (policy seq_segit, cuda_exec<B>).
IndexSetCalls ==
  {Call(fn, "cuda_exec", "IndexSet", B, 0, 0, NoIdx, 0, s) :
     fn \in Fns, B \in 0 .. MaxBlock, s \in IndexSets}

DispatchCalls ==
  {c \in RangeCalls : c.end >= c.begin /\ c.end - c.begin <= MaxLen /\ c.icount \in Icounts(c.fn)}
  \cup {c \in ArrayCalls : c.icount \in Icounts(c.fn)}

Calls == DispatchCalls \cup IndexSetCalls

(* ------------------------------- state -------------------------------- *)

VARIABLES
  api,       \* the call the host thread makes
  pc,        \* the host thread's position
  cur,       \* local variables of the running dispatch template
  isi,       \* the walker's segment counter
  ftOpen,    \* fault-tolerance scopes entered and not exited
  launches,  \* every kernel launch issued so far, in issue order
  pending,   \* work items of accepted launches that have not run yet
  calls,     \* bag of loop_body invocations, [l |-> launch, args |-> arguments]
  reads,     \* positions of indirection arrays read, [l |-> launch, pos |-> ii]
  devFault,  \* a work item has faulted: the device context is lost
  lastErr,   \* the runtime's last error of the host thread
  reported,  \* the error gpuErrchk ended the process with
  events     \* the host thread's device-facing steps, in order

vars == <<api, pc, cur, isi, ftOpen, launches, pending, calls, reads, devFault,
          lastErr, reported, events>>

NoFrame ==
  [kernel |-> "none", sync |-> FALSE, B |-> 0, begin |-> 0, idx |-> NoIdx,
   len |-> 0, icount |-> 0, gridSize |-> 0, seg |-> 0]

InitOf(callSet) ==
  /\ api \in callSet
  /\ pc = "call"
  /\ cur = NoFrame
  /\ isi = 0
  /\ ftOpen = 0
  /\ launches = << >>
  /\ pending = {}
  /\ calls = EmptyBag
  /\ reads = {}
  /\ devFault = FALSE
  /\ lastErr = "cudaSuccess"
  /\ reported = "cudaSuccess"
  /\ events = << >>

Init == InitOf(Calls)

Ev(op, seg) == [op |-> op, seg |-> seg]

(* ------------------------- dispatch templates ------------------------- *)

\* The domain adapters: the (begin, len) or (idx, len) a template works on.
RangeLocals(begin, end) ==
  [begin |-> begin, idx |-> NoIdx, len |-> RangeLen(begin, end)]

\* Mutant: the RangeSegment template takes getEnd() for the length.
RangeSegmentLocals_LenIsEnd(iseg) ==
  [begin |-> iseg.begin, idx |-> NoIdx, len |-> ToIndexType(iseg.end)]

RangeSegmentLocals(iseg) ==
  [begin |-> iseg.begin, idx |-> NoIdx, len |-> RangeLen(iseg.begin, iseg.end)]

ArrayLocals(idx, len) == [begin |-> 0, idx |-> idx, len |-> len]

ListSegmentLocals(iseg) == [begin |-> 0, idx |-> iseg.idx, len |-> Len(iseg.idx)]

Locals(dom, d) ==
  CASE dom = "range" -> RangeLocals(d.begin, d.end)
    [] dom = "RangeSegment" -> RangeSegmentLocals(d)
    [] dom = "array" -> ArrayLocals(d.idx, d.len)
    [] dom = "ListSegment" -> ListSegmentLocals(d)

\* The kernel entry point a template launches.
KernelOf(fn, dom) ==
  IF dom \in {"range", "RangeSegment"}
  THEN (IF fn = "forall" THEN "forall_cuda_kernel" ELSE "forall_Icount_cuda_kernel")
  ELSE (IF fn = "forall" THEN "forall_cuda_kernel_idx" ELSE "forall_Icount_cuda_kernel_idx")

\* Mutant: every template synchronizes.
IsSync_Always(policy) == TRUE

\* Mutant: no template synchronizes.
IsSync_Never(policy) == FALSE

\* cuda_exec<B> synchronizes after the launch, cuda_exec_async<B> does not.
IsSync(policy) == policy = "cuda_exec"

\* The frame of a dispatch template once its local variables are computed.
Frame(fn, policy, dom, B, d, icount, seg, gridSize) ==
  LET loc == Locals(dom, d)
  IN  [kernel |-> KernelOf(fn, dom), sync |-> IsSync(policy), B |-> B,
       begin |-> loc.begin, idx |-> loc.idx, len |-> loc.len,
       icount |-> icount, gridSize |-> gridSize, seg |-> seg]

\* Entry of a dispatch template: len and gridSize.  With BLOCK_SIZE = 0 the
\* division is undefined: the process may trap, or go on with any gridSize.
Enter(fn, policy, dom, B, d, icount, seg) ==
  \/ /\ B = 0
     /\ pc' = "crashed"
     /\ cur' = cur
  \/ /\ \E g \in GridSizes(Locals(dom, d).len, B) :
          cur' = Frame(fn, policy, dom, B, d, icount, seg, g)
     /\ pc' = "ft_begin"

\* forall(policy, ...) / forall_Icount(policy, ...) called on a range, a
\* RangeSegment, an indirection array or a ListSegment.
DispatchCall ==
  /\ pc = "call"
  /\ api.dom # "IndexSet"
  /\ Enter(api.fn, api.policy, api.dom, api.B, api, api.icount, 0)
  /\ UNCHANGED <<api, isi, ftOpen, launches, pending, calls, reads, devFault,
                 lastErr, reported, events>>

\* RAJA_FT_BEGIN ;
FtBegin ==
  /\ pc = "ft_begin"
  /\ ftOpen' = ftOpen + 1
  /\ events' = Append(events, Ev("ft_begin", cur.seg))
  /\ pc' = "launch"
  /\ UNCHANGED <<api, cur, isi, launches, pending, calls, reads, devFault,
                 lastErr, reported>>

\* kernel<<<gridSize, BLOCK_SIZE>>>(loop_body, ...): the runtime rejects an
\* invalid configuration and may reject any launch (resources); an accepted
\* launch queues its work items.
Launch ==
  /\ pc = "launch"
  /\ \E ok \in (IF ValidConfig(ToUInt(cur.gridSize), ToUInt(cur.B)) THEN BOOLEAN ELSE {FALSE}) :
       /\ launches' = Append(launches,
            [kernel |-> cur.kernel, gridSize |-> ToUInt(cur.gridSize), B |-> ToUInt(cur.B),
             begin |-> cur.begin, idx |-> cur.idx, len |-> cur.len,
             icount |-> cur.icount, seg |-> cur.seg, ok |-> ok])
       /\ pending' = IF ok THEN pending \cup WorkItems(Len(launches) + 1,
                                                      ToUInt(cur.gridSize), ToUInt(cur.B))
                          ELSE pending
       /\ lastErr' = IF ok THEN lastErr ELSE "launch_error"
  /\ events' = Append(events, Ev("launch", cur.seg))
  /\ pc' = "peek"
  /\ UNCHANGED <<api, cur, isi, ftOpen, calls, reads, devFault, reported>>

\* cudaPeekAtLastError(): the last error of the host thread; a fault of a
\* running kernel may or may not have been noticed yet.
PeekResults ==
  IF lastErr # "cudaSuccess" THEN {lastErr}
  ELSE IF devFault THEN {"cudaSuccess", "exec_error"} ELSE {"cudaSuccess"}

\* cudaDeviceSynchronize() returns once the device is idle, with the fault if
\* a kernel faulted.
DeviceIdle == pending = {} \/ devFault

SyncResult == IF devFault THEN "exec_error" ELSE lastErr

\* gpuErrchk(code): any code but cudaSuccess ends the process with that code.
gpuErrchk(code, next) ==
  IF code # "cudaSuccess"
  THEN /\ pc' = "fatal"
       /\ reported' = code
  ELSE /\ pc' = next
       /\ reported' = reported

\* Mutant: a launch the status check finds rejected is issued again.
Peek_Retry ==
  /\ pc = "peek"
  /\ \E code \in PeekResults :
       IF code # "cudaSuccess"
       THEN pc' = "launch"
       ELSE pc' = IF cur.sync THEN "sync" ELSE "ft_end"
  /\ events' = Append(events, Ev("peek", cur.seg))
  /\ UNCHANGED <<api, cur, isi, ftOpen, launches, pending, calls, reads,
                 devFault, lastErr, reported>>

\* Mutant: the status after the launch is not checked.
Peek_Unchecked ==
  /\ pc = "peek"
  /\ pc' = IF cur.sync THEN "sync" ELSE "ft_end"
  /\ events' = Append(events, Ev("peek", cur.seg))
  /\ UNCHANGED <<api, cur, isi, ftOpen, launches, pending, calls, reads,
                 devFault, lastErr, reported>>

\* gpuErrchk(cudaPeekAtLastError()); inside a dispatch template.
Peek ==
  /\ pc = "peek"
  /\ \E code \in PeekResults :
       gpuErrchk(code, IF cur.sync THEN "sync" ELSE "ft_end")
  /\ events' = Append(events, Ev("peek", cur.seg))
  /\ UNCHANGED <<api, cur, isi, ftOpen, launches, pending, calls, reads,
                 devFault, lastErr>>

\* Mutant: cudaDeviceSynchronize() is called without gpuErrchk.
Sync_Unchecked ==
  /\ pc = "sync"
  /\ DeviceIdle
  /\ pc' = "ft_end"
  /\ events' = Append(events, Ev("sync", cur.seg))
  /\ UNCHANGED <<api, cur, isi, ftOpen, launches, pending, calls, reads,
                 devFault, lastErr, reported>>

\* gpuErrchk(cudaDeviceSynchronize()); inside a cuda_exec template.
Sync ==
  /\ pc = "sync"
  /\ DeviceIdle
  /\ gpuErrchk(SyncResult, "ft_end")
  /\ events' = Append(events, Ev("sync", cur.seg))
  /\ UNCHANGED <<api, cur, isi, ftOpen, launches, pending, calls, reads,
                 devFault, lastErr>>

\* RAJA_FT_END ; and the return of the template, to the caller or to the
\* walker's loop (++isi).
FtEnd ==
  /\ pc = "ft_end"
  /\ ftOpen' = ftOpen - 1
  /\ events' = Append(events, Ev("ft_end", cur.seg))
  /\ IF api.dom = "IndexSet"
     THEN /\ pc' = "walk_loop"
          /\ isi' = isi + 1
     ELSE /\ pc' = "returned"
          /\ isi' = isi
  /\ UNCHANGED <<api, cur, launches, pending, calls, reads, devFault,
                 lastErr, reported>>

(* ------------------------------ walkers ------------------------------- *)

\* forall / forall_Icount over an IndexSet: int num_seg = getNumSegments(); isi = 0.
WalkCall ==
  /\ pc = "call"
  /\ api.dom = "IndexSet"
  /\ pc' = "walk_loop"
  /\ isi' = 0
  /\ UNCHANGED <<api, cur, ftOpen, launches, pending, calls, reads, devFault,
                 lastErr, reported, events>>

\* executeRangeList_forall< cuda_exec_async<B> >(seg_info, loop_body) and its
\* _Icount twin: the segment's own forall under the given policy, with
\* seg_info->getIcount() in counted mode.
executeRangeList(fn, policy, B, seg_info, seg) ==
  Enter(fn, policy, seg_info.type, B, seg_info,
        IF fn = "forall_Icount" THEN seg_info.icount ELSE 0, seg)

\* Mutant: the walker dispatches every segment under the caller's cuda_exec.
SegmentPolicy_Sync == "cuda_exec"

\* The policy the walker dispatches a segment under.
SegmentPolicy == "cuda_exec_async"

\* Mutant: every turn of the loop dispatches the first segment.
WalkSegment_FirstSegment ==
  /\ pc = "walk_loop"
  /\ isi < Len(api.segs)
  /\ executeRangeList(api.fn, SegmentPolicy, api.B, api.segs[1], isi + 1)
  /\ UNCHANGED <<api, isi, ftOpen, launches, pending, calls, reads, devFault,
                 lastErr, reported, events>>

\* Mutant: the walker returns without cudaDeviceSynchronize().
WalkSync_Skipped ==
  /\ pc = "walk_sync"
  /\ pc' = "returned"
  /\ UNCHANGED <<api, cur, isi, ftOpen, launches, pending, calls, reads,
                 devFault, lastErr, reported, events>>

\* One turn of the loop: isi < num_seg, getSegmentInfo(isi), dispatch.
WalkSegment ==
  /\ pc = "walk_loop"
  /\ isi < Len(api.segs)
  /\ executeRangeList(api.fn, SegmentPolicy, api.B, api.segs[isi + 1], isi + 1)
  /\ UNCHANGED <<api, isi, ftOpen, launches, pending, calls, reads, devFault,
                 lastErr, reported, events>>

\* Mutant: the walker goes from its loop to cudaDeviceSynchronize() without
\* looking at the last error.
WalkPeek_Skipped ==
  /\ pc = "walk_loop"
  /\ isi >= Len(api.segs)
  /\ pc' = "walk_sync"
  /\ UNCHANGED <<api, cur, isi, ftOpen, launches, pending, calls, reads,
                 devFault, lastErr, reported, events>>

\* The loop ends: gpuErrchk(cudaPeekAtLastError());
WalkPeek ==
  /\ pc = "walk_loop"
  /\ isi >= Len(api.segs)
  /\ \E code \in PeekResults : gpuErrchk(code, "walk_sync")
  /\ events' = Append(events, Ev("peek", 0))
  /\ UNCHANGED <<api, cur, isi, ftOpen, launches, pending, calls, reads,
                 devFault, lastErr>>

\* gpuErrchk(cudaDeviceSynchronize()); and the walker returns.
WalkSync ==
  /\ pc = "walk_sync"
  /\ DeviceIdle
  /\ gpuErrchk(SyncResult, "returned")
  /\ events' = Append(events, Ev("sync", 0))
  /\ UNCHANGED <<api, cur, isi, ftOpen, launches, pending, calls, reads,
                 devFault, lastErr>>

(* --------------------------- device execution ------------------------- *)

\* What the work item (blockIdx.x = b, threadIdx.x = t) of launch L may do.
KernelEffects(L, b, t) ==
  CASE L.kernel = "forall_cuda_kernel" ->
         forall_cuda_kernel(L.begin, L.len, L.B, b, t)
    [] L.kernel = "forall_Icount_cuda_kernel" ->
         forall_Icount_cuda_kernel(L.begin, L.len, L.icount, L.B, b, t)
    [] L.kernel = "forall_cuda_kernel_idx" ->
         forall_cuda_kernel_idx(L.idx, L.len, L.B, b, t)
    [] L.kernel = "forall_Icount_cuda_kernel_idx" ->
         forall_Icount_cuda_kernel_idx(L.idx, L.len, L.icount, L.B, b, t)

\* The device runs one pending work item, any of them; the item may fault.
ExecItem ==
  /\ pc \notin {"fatal", "crashed"}
  /\ ~devFault
  /\ \E w \in pending :
       /\ pending' = pending \ {w}
       /\ \/ /\ devFault' = TRUE
             /\ UNCHANGED <<calls, reads>>
          \/ /\ devFault' = FALSE
             /\ \E e \in KernelEffects(launches[w.l], w.b, w.t) :
                  /\ calls' = calls (+) SetToBag({[l |-> w.l, args |-> a] : a \in e.inv})
                  /\ reads' = reads \cup {[l |-> w.l, pos |-> q] : q \in e.rd}
  /\ UNCHANGED <<api, pc, cur, isi, ftOpen, launches, lastErr, reported, events>>

Next ==
  \/ DispatchCall
  \/ FtBegin
  \/ Launch
  \/ Peek
  \/ Sync
  \/ FtEnd
  \/ WalkCall
  \/ WalkSegment
  \/ WalkPeek
  \/ WalkSync
  \/ ExecItem

Spec == Init /\ [][Next]_vars

\* The single dispatches alone: a call on a range, a RangeSegment, an
\* indirection array or a ListSegment.
InitDispatch == InitOf(DispatchCalls)

NextDispatch ==
  \/ DispatchCall
  \/ FtBegin
  \/ Launch
  \/ Peek
  \/ Sync
  \/ FtEnd
  \/ ExecItem

SpecDispatch == InitDispatch /\ [][NextDispatch]_vars

\* The walks alone: a call on an IndexSet.
InitWalk == InitOf(IndexSetCalls)

NextWalk ==
  \/ WalkCall
  \/ WalkSegment
  \/ FtBegin
  \/ Launch
  \/ Peek
  \/ FtEnd
  \/ WalkPeek
  \/ WalkSync
  \/ ExecItem

SpecWalk == InitWalk /\ [][NextWalk]_vars

\* The host side of the single dispatches up to the kernel launch, on longer
\* domains and larger blocks (the contents of an array play no role here).
GeoMaxLen == 6

GeoMaxBlock == 4

GeometryCalls ==
  {Call(fn, p, d, B, b, b + n, NoIdx, ic, << >>) :
     fn \in Fns, p \in Policies, d \in {"range", "RangeSegment"}, B \in 1 .. GeoMaxBlock,
     b \in 0 .. MaxBegin, n \in 0 .. GeoMaxLen, ic \in 0 .. MaxIcount}
  \cup
  {Call(fn, p, d, B, 0, 0, [i \in 1 .. n |-> 0], ic, << >>) :
     fn \in Fns, p \in Policies, d \in {"array", "ListSegment"}, B \in 1 .. GeoMaxBlock,
     n \in 0 .. GeoMaxLen, ic \in 0 .. MaxIcount}

InitGeometry == InitOf({c \in GeometryCalls : c.icount \in Icounts(c.fn)})

NextGeometry ==
  \/ DispatchCall
  \/ FtBegin
  \/ Launch

SpecGeometry == InitGeometry /\ [][NextGeometry]_vars

\* The caller after a single dispatch has returned: it may call the same
\* template again on the same domain, and it may synchronize with the device
\* itself (cudaDeviceSynchronize(), without gpuErrchk).
MaxRuns == 2

CallAgain ==
  /\ pc = "returned"
  /\ api.dom # "IndexSet"
  /\ Len(launches) < MaxRuns
  /\ pc' = "call"
  /\ UNCHANGED <<api, cur, isi, ftOpen, launches, pending, calls, reads,
                 devFault, lastErr, reported, events>>

CallerSynchronize ==
  /\ pc = "returned"
  /\ api.dom # "IndexSet"
  /\ DeviceIdle
  /\ lastErr' = SyncResult
  /\ pc' = "synced"
  /\ UNCHANGED <<api, cur, isi, ftOpen, launches, pending, calls, reads,
                 devFault, reported, events>>

InitCaller == InitOf(DispatchCalls)

NextCaller ==
  \/ NextDispatch
  \/ CallAgain
  \/ CallerSynchronize

SpecCaller == InitCaller /\ [][NextCaller]_vars

\* A dispatch over a RangeSegment or a ListSegment, after which the caller
\* calls the raw template of the same policy and mode on the segment's
\* (getBegin(), getEnd()) or (getIndex(), getLength()).
RawOf(dom) ==
  CASE dom \in {"range", "RangeSegment"} -> "range"
    [] dom \in {"array", "ListSegment"} -> "array"

CallRaw ==
  /\ pc = "returned"
  /\ api.dom \in {"RangeSegment", "ListSegment"}
  /\ api' = [api EXCEPT !.dom = RawOf(api.dom)]
  /\ pc' = "call"
  /\ UNCHANGED <<cur, isi, ftOpen, launches, pending, calls, reads,
                 devFault, lastErr, reported, events>>

InitAdapters ==
  InitOf({c \in DispatchCalls : c.dom \in {"RangeSegment", "ListSegment"}})

NextAdapters ==
  \/ NextDispatch
  \/ CallRaw

SpecAdapters == InitAdapters /\ [][NextAdapters]_vars

\* The single dispatches at the ends of Index_type: domains as long as
\* Index_type allows, and domains of negative length, a range with
\* end < begin or a raw (idx, len) call with len < 0.
LongLens == {IndexMax - 1, IndexMax}

\* The shortest and the two longest negative lengths.
NegativeLens == {-1, 1 - IndexMax, -IndexMax}

ExtremeCalls ==
  {Call(fn, p, d, B, 0, n, NoIdx, ic, << >>) :
     fn \in Fns, p \in Policies, d \in {"range", "RangeSegment"}, B \in 1 .. GeoMaxBlock,
     n \in LongLens, ic \in 0 .. MaxIcount}
  \cup
  {Call(fn, p, d, B, 0, 0, [i \in 1 .. n |-> 0], ic, << >>) :
     fn \in Fns, p \in Policies, d \in {"array", "ListSegment"}, B \in 1 .. GeoMaxBlock,
     n \in LongLens, ic \in 0 .. MaxIcount}
  \cup
  {Call(fn, p, d, B, -n, 0, NoIdx, ic, << >>) :
     fn \in Fns, p \in Policies, d \in {"range", "RangeSegment"}, B \in 1 .. GeoMaxBlock,
     n \in NegativeLens, ic \in 0 .. MaxIcount}
  \cup
  {[Call(fn, p, "array", B, 0, 0, NoIdx, ic, << >>) EXCEPT !.len = n] :
     fn \in Fns, p \in Policies, B \in 1 .. GeoMaxBlock,
     n \in NegativeLens, ic \in 0 .. MaxIcount}

InitExtreme == InitOf({c \in ExtremeCalls : c.icount \in Icounts(c.fn)})

SpecExtreme == InitExtreme /\ [][NextDispatch]_vars

(* --------------------------- shared notions --------------------------- *)

IsDispatch == api.dom # "IndexSet"

IsWalk == api.dom = "IndexSet"

\* The length of the domain of a single dispatch.
DomainLength ==
  IF api.dom \in {"range", "RangeSegment"} THEN api.end - api.begin ELSE api.len

\* Launch l was accepted and all its work items have run without a fault.
Completed(l) ==
  /\ l \in DOMAIN launches
  /\ launches[l].ok
  /\ ~devFault
  /\ \A w \in pending : w.l # l

\* The invocations recorded for launch l, and those with given arguments.
CallsOf(l) == {c \in BagToSet(calls) : c.l = l}

Times(l, a) == CopiesIn([l |-> l, args |-> a], calls)

EventCount(op, seg) ==
  Cardinality({i \in DOMAIN events : events[i] = Ev(op, seg)})

OpCount(op) == Cardinality({i \in DOMAIN events : events[i].op = op})

(* ------------------------------- claims ------------------------------- *)

SegItem(s, j) == IF s.type = "RangeSegment" THEN s.begin + j ELSE s.idx[j + 1]

Offset(k) == TotalLength(SubSeq(api.segs, 1, k - 1))

\* The (global index, domain index) pairs segment k must receive.
SegPairs(k) ==
  {<<Offset(k) + j, SegItem(api.segs[k], j)>> :
     j \in 0 .. (SegLength(api.segs[k]) - 1)}

\* C3: in a counted walk the launch of segment k carries the offset
\* L0 + ... + L(k-1); loop_body only ever receives, from segment k, pairs
\* (offset + j, item j of segment k), none twice; and when the walk returns
\* every segment has delivered all its pairs, so that the global indices
\* received are exactly 0 .. (sum of Li) - 1, each once.
C3_CountedWalkGlobalIndices ==
  (IsWalk /\ api.fn = "forall_Icount") =>
    /\ \A k \in DOMAIN launches :
         launches[k].seg = k /\ launches[k].icount = Offset(k)
    /\ \A c \in BagToSet(calls) :
         c.args \in SegPairs(c.l) /\ CopiesIn(c, calls) = 1
    /\ pc = "returned" =>
         /\ \A k \in DOMAIN api.segs : {c.args : c \in CallsOf(k)} = SegPairs(k)
         /\ {c.args[1] : c \in BagToSet(calls)} = 0 .. (TotalLength(api.segs) - 1)
         /\ BagCardinality(calls) = TotalLength(api.segs)

\* C3 witness: a counted walk over a range segment of length 2 followed by a
\* list segment of length 2 has returned; the second segment's first item got
\* global index 2.
C3_Witness ==
  /\ IsWalk /\ api.fn = "forall_Icount" /\ Len(api.segs) = 2
  /\ api.segs[1].type = "RangeSegment" /\ SegLength(api.segs[1]) = 2
  /\ api.segs[2].type = "ListSegment" /\ SegLength(api.segs[2]) = 2
  /\ pc = "returned"
  /\ Times(2, <<2, api.segs[2].idx[1]>>) = 1
  /\ BagCardinality(calls) = 4

\* C4: when a dispatch under cuda_exec (any domain shape, counted or not) has
\* returned, none of its work items is still waiting to run.
C4_SyncDispatchReturnsAfterCompletion ==
  (IsDispatch /\ api.policy = "cuda_exec" /\ pc = "returned") =>
    /\ pending = {}
    /\ Len(launches) = 1 /\ launches[1].ok

\* C4 witness: a counted cuda_exec dispatch over a ListSegment of two items in
\* blocks of one has returned after both work items ran.
C4_Witness ==
  /\ api.dom = "ListSegment" /\ api.fn = "forall_Icount" /\ api.policy = "cuda_exec"
  /\ api.B = 1 /\ Len(api.idx) = 2
  /\ pc = "returned"
  /\ BagCardinality(calls) = 2

\* C5: in a walk no synchronization happens inside a segment's dispatch (every
\* synchronization is the walker's own and comes after all N launches), and a
\* walk that has returned made N launches, then exactly one status check of
\* its own, then exactly one synchronization, as its last two steps.
C5_WalkSynchronizesOnceAtTheEnd ==
  IsWalk =>
    /\ \A i \in DOMAIN events :
         events[i].op = "sync" =>
           /\ events[i].seg = 0
           /\ OpCount("launch") = Len(api.segs)
           /\ \A j \in DOMAIN events : events[j].op = "launch" => j < i
    /\ pc = "returned" =>
         /\ OpCount("launch") = Len(api.segs)
         /\ OpCount("sync") = 1
         /\ EventCount("peek", 0) = 1
         /\ Len(events) >= 2
         /\ events[Len(events) - 1] = Ev("peek", 0)
         /\ events[Len(events)] = Ev("sync", 0)

\* C5 witness: a walk over two segments has returned after two launches and a
\* single synchronization.
C5_Witness ==
  /\ IsWalk /\ Len(api.segs) = 2
  /\ pc = "returned"
  /\ OpCount("launch") = 2
  /\ OpCount("sync") = 1

\* C6 (as claimed): a dispatch over an empty domain, with a positive block
\* size, issues no kernel launch and raises no error.
C6_EmptyDomainIssuesNothing ==
  (IsDispatch /\ api.B >= 1 /\ DomainLength = 0) =>
    /\ launches = << >>
    /\ pc # "fatal"
    /\ reported = "cudaSuccess"

\* C7: in a walk, a launch the device rejected is the last launch issued: the
\* host is either about to check the status or has ended with that launch
\* error, so no later segment is ever issued.
C7_RejectedSegmentEndsWalk ==
  IsWalk =>
    \A k \in DOMAIN launches :
      ~launches[k].ok =>
        /\ k = Len(launches)
        /\ pc \in {"peek", "fatal"}
        /\ pc = "fatal" => reported = "launch_error"

\* C7 witness: the device rejected the launch of the first of two non-empty
\* segments; the walk has ended fatally with one launch issued.
C7_Witness ==
  /\ IsWalk /\ Len(api.segs) = 2 /\ api.B >= 1
  /\ SegLength(api.segs[1]) >= 1 /\ SegLength(api.segs[2]) >= 1
  /\ Len(launches) = 1 /\ ~launches[1].ok
  /\ pc = "fatal" /\ reported = "launch_error"

\* C8 (as claimed): at the moment a dispatch or walk returns, no device error
\* (rejected launch or faulted kernel) has gone unreported.
C8_NoErrorUnreportedAtReturn ==
  [][(pc # "returned" /\ pc' = "returned") =>
       (~devFault' /\ lastErr' = "cudaSuccess")]_vars

\* C8 (amended): a call never returns after a rejected launch, in either mode;
\* a cuda_exec dispatch or a walk never returns after a kernel fault; and a
\* call that ended fatally reports the error that occurred.  (A cuda_exec_async
\* dispatch may return with a kernel fault unreported.)
C8_ErrorsReportedExceptAsyncFaults ==
  /\ pc = "returned" =>
       /\ lastErr = "cudaSuccess"
       /\ \A k \in DOMAIN launches : launches[k].ok
       /\ api.policy = "cuda_exec" => ~devFault
  /\ pc = "fatal" =>
       /\ reported \in {"launch_error", "exec_error"}
       /\ reported = "launch_error" => ~launches[Len(launches)].ok
       /\ reported = "exec_error" => devFault

\* C8 witness: a kernel launched by a cuda_exec dispatch faulted and the
\* dispatch ended fatally with that error, found by the synchronization.
C8_Witness ==
  /\ IsDispatch /\ api.policy = "cuda_exec"
  /\ devFault
  /\ pc = "fatal" /\ reported = "exec_error"
  /\ events[Len(events)].op = "sync"

\* C9 (as claimed): a dispatch or walk that has ended, normally or with a
\* device error, has no fault-tolerance scope entered and not exited.
C9_ScopeExitedOnEveryExitPath ==
  pc \in {"returned", "fatal"} => ftOpen = 0

\* C10 (as claimed): with block size 0 a dispatch ends with an error without
\* ever issuing a kernel launch.
C10_ZeroBlockSizeFailsBeforeIssue ==
  (IsDispatch /\ api.B = 0) => launches = << >>

\* C11: a walk over an IndexSet without segments launches no kernel and
\* dispatches nothing, never ends in a fatal error, and does nothing but the
\* walker's trailing cudaPeekAtLastError and cudaDeviceSynchronize, in this
\* order and both of them successful, before it returns.
C11_EmptyWalkOnlyChecksAndWaits ==
  (IsWalk /\ Len(api.segs) = 0) =>
    /\ launches = << >>
    /\ pending = {} /\ calls = EmptyBag /\ ftOpen = 0
    /\ pc \in {"call", "walk_loop", "walk_sync", "returned"}
    /\ reported = "cudaSuccess"
    /\ events = CASE pc \in {"call", "walk_loop"} -> << >>
                  [] pc = "walk_sync" -> <<Ev("peek", 0)>>
                  [] OTHER -> <<Ev("peek", 0), Ev("sync", 0)>>

\* A walk over no segment has returned.
C11_Witness ==
  IsWalk /\ Len(api.segs) = 0 /\ pc = "returned"

\* The least number of blocks of B work items that cover len indices.
CeilDiv(len, B) == CHOOSE g \in 0 .. len : g * B >= len /\ (g - 1) * B < len

\* C12: for a length >= 0 and a block size >= 1, the grid a dispatch computes
\* and launches has ceil(length / block size) blocks; with block size 1 that
\* is one block per index, and length 5 with block size 4 gives 2 blocks.
C12_GridSizeIsCeiling ==
  (IsDispatch /\ api.B >= 1 /\ DomainLength >= 0) =>
    /\ pc # "call" => cur.gridSize = CeilDiv(DomainLength, api.B)
    /\ \A l \in DOMAIN launches :
         /\ launches[l].gridSize = CeilDiv(DomainLength, api.B)
         /\ launches[l].B = api.B
         /\ api.B = 1 => launches[l].gridSize = DomainLength
         /\ (DomainLength = 5 /\ api.B = 4) => launches[l].gridSize = 2

\* A kernel was launched on 5 indices in blocks of 4: the last block is
\* partially filled.
C12_Witness ==
  /\ IsDispatch /\ DomainLength = 5 /\ api.B = 4
  /\ Len(launches) = 1 /\ launches[1].gridSize = 2

\* The arguments loop_body was called with by the work items of launch l.
Visited(l) == {c.args : c \in CallsOf(l)}

\* C13: when the caller makes the same single dispatch twice on the same
\* domain, the two launches get the same kernel arguments and, once both have
\* completed, loop_body has been called on the same set of indices by the
\* first and by the second, in every interleaving of their work items.
C13_SecondDispatchVisitsTheSame ==
  (IsDispatch /\ Len(launches) = 2) =>
    /\ [launches[1] EXCEPT !.ok = TRUE] = [launches[2] EXCEPT !.ok = TRUE]
    /\ (Completed(1) /\ Completed(2)) => Visited(1) = Visited(2)

\* Both asynchronous dispatches of a domain of two indices have returned and
\* completed.
C13_Witness ==
  /\ IsDispatch /\ api.policy = "cuda_exec_async" /\ DomainLength = 2
  /\ Len(launches) = 2 /\ Completed(1) /\ Completed(2)
  /\ Cardinality(CallsOf(1)) >= 1 /\ Cardinality(CallsOf(2)) >= 1
  /\ pc = "returned"

\* The device-facing steps of a single dispatch under the given policy.
DispatchSteps(policy) ==
  <<Ev("ft_begin", 0), Ev("launch", 0), Ev("peek", 0)>>
    \o (IF policy = "cuda_exec" THEN <<Ev("sync", 0)>> ELSE << >>)
    \o <<Ev("ft_end", 0)>>

\* C14: the steps of a single dispatch are, in this order: len and gridSize,
\* RAJA_FT_BEGIN, the kernel launch, the status check, under cuda_exec (and
\* only there) the synchronization with its check, RAJA_FT_END.  At any
\* moment the steps made are a prefix of this sequence and all of it when the
\* call has returned; the kernel is launched at most once, while the scope is
\* open, and exactly once in a call that returns.
C14_DispatchStepsInOrder ==
  IsDispatch =>
    /\ Len(events) <= Len(DispatchSteps(api.policy))
    /\ events = SubSeq(DispatchSteps(api.policy), 1, Len(events))
    /\ events # << >> => (cur # NoFrame /\ cur.len = ToIndexType(DomainLength))
    /\ Len(launches) = OpCount("launch") /\ Len(launches) <= 1
    /\ pc = "launch" => (ftOpen = 1 /\ events = <<Ev("ft_begin", 0)>>)
    /\ pc = "peek" => (ftOpen = 1 /\ Len(launches) = 1)
    /\ pc = "returned" =>
         (events = DispatchSteps(api.policy) /\ Len(launches) = 1 /\ ftOpen = 0)

\* A synchronous dispatch has gone through all its steps and returned.
C14_Witness ==
  /\ IsDispatch /\ api.policy = "cuda_exec" /\ pc = "returned"
  /\ Len(events) = 5 /\ Len(launches) = 1

\* C15: a cuda_exec_async dispatch never synchronizes with the device: it
\* returns after the launch and the status check alone, so work items of its
\* launch may be pending when it has returned; when the caller's own later
\* cudaDeviceSynchronize() has returned, no work item is pending and every
\* launch has completed, unless a kernel faulted, which this synchronization
\* then reports.
C15_AsyncReturnsWithoutWaiting ==
  (IsDispatch /\ api.policy = "cuda_exec_async") =>
    /\ pc # "sync" /\ OpCount("sync") = 0
    /\ pc = "returned" =>
         /\ \A l \in DOMAIN launches : launches[l].ok
         /\ OpCount("launch") = Len(launches)
         /\ OpCount("peek") = Len(launches)
         /\ events[Len(events)] = Ev("ft_end", 0)
    /\ pc = "synced" =>
         IF devFault
         THEN lastErr = "exec_error"
         ELSE /\ lastErr = "cudaSuccess"
              /\ pending = {}
              /\ \A l \in DOMAIN launches : Completed(l)

\* An asynchronous dispatch of two indices has returned and none of its work
\* items has run yet.
C15_Witness ==
  /\ IsDispatch /\ api.policy = "cuda_exec_async" /\ DomainLength = 2
  /\ pc = "returned" /\ Len(launches) = 1
  /\ pending = WorkItems(1, launches[1].gridSize, launches[1].B)
  /\ calls = EmptyBag

\* The local index blockDim.x * blockIdx.x + threadIdx.x of a work item, and
\* the work items of an accepted launch l whose local index is not in [0, len).
LocalIndex(w) == launches[w.l].B * w.b + w.t

IsIdle(w) == ~(0 <= LocalIndex(w) /\ LocalIndex(w) < launches[w.l].len)

IdleItems(l) ==
  {w \in WorkItems(l, launches[l].gridSize, launches[l].B) : IsIdle(w)}

\* The kernels give an idle work item nothing to do, idle work items are in
\* the last block only, and they are fewer than a block.
C16_IdleItemsOfLaunches ==
  \A l \in DOMAIN launches :
    launches[l].ok =>
      /\ \A w \in IdleItems(l) :
           /\ KernelEffects(launches[l], w.b, w.t) = {NoOp}
           /\ w.b = launches[l].gridSize - 1
      /\ Cardinality(IdleItems(l)) < launches[l].B

\* The step of an idle work item calls no loop_body and reads no array.
C16_IdleItemStep ==
  \A w \in pending \ pending' :
    IsIdle(w) => (calls' = calls /\ reads' = reads)

\* C16 (as claimed): in each of the four kernels a work item whose local
\* index blockDim.x * blockIdx.x + threadIdx.x is not in [0, len) does
\* nothing, neither a call of loop_body nor a read of idx; such work items
\* exist in the last block of a grid only, and there are fewer of them than
\* BLOCK_SIZE.  The kernels test the index as stored in Index_type, which is
\* negative, and below len, for a local index beyond max Index_type.
C16_OutOfRangeItemsAreIdle ==
  [](C16_IdleItemsOfLaunches) /\ [][C16_IdleItemStep]_vars

\* The (count, index) pairs a counted dispatch on the caller's domain owes.
CountedPairs ==
  IF api.dom \in {"range", "RangeSegment"}
  THEN [i \in 0 .. (DomainLength - 1) |-> <<api.icount + i, api.begin + i>>]
  ELSE [i \in 0 .. (DomainLength - 1) |-> <<api.icount + i, api.idx[i + 1]>>]

C18_SegmentDispatchIsRawDispatch ==
  IsDispatch =>
    /\ (cur # NoFrame /\ api.B >= 1) =>
         cur = Frame(api.fn, api.policy, RawOf(api.dom), api.B, api, api.icount, 0,
                     GridSize(Locals(RawOf(api.dom), api).len, api.B))
    /\ Len(launches) = 2 =>
         /\ [launches[1] EXCEPT !.ok = TRUE] = [launches[2] EXCEPT !.ok = TRUE]
         /\ pc = "returned" =>
              /\ Len(events) = 2 * Len(DispatchSteps(api.policy))
              /\ events = DispatchSteps(api.policy) \o DispatchSteps(api.policy)
         /\ (Completed(1) /\ Completed(2)) =>
              \A c \in CallsOf(1) \cup CallsOf(2) : Times(1, c.args) = Times(2, c.args)

\* The dispatch over a ListSegment and the raw dispatch over its array that
\* followed have both completed.
C18_Witness ==
  /\ api.dom = "array" /\ Len(api.idx) = 2 /\ api.fn = "forall_Icount"
  /\ Len(launches) = 2 /\ Completed(1) /\ Completed(2)
  /\ pc = "returned" /\ BagCardinality(calls) = 4

\* How many positions of segment k hold the index v.
Positions(k, v) ==
  Cardinality({j \in 0 .. (SegLength(api.segs[k]) - 1) : SegItem(api.segs[k], j) = v})

\* C19: in an uncounted walk the k-th launch is the one of segment k, on that
\* segment's data; loop_body only ever receives, from the launch of segment
\* k, indices held by segment k and none more often than the segment has
\* positions holding it; when the walk returns there has been one launch per
\* segment and loop_body was called once per (segment, position), sum of Li
\* times in all.
C19_UncountedWalkVisitsEachPosition ==
  (IsWalk /\ api.fn = "forall") =>
    /\ Len(launches) <= Len(api.segs)
    /\ \A k \in DOMAIN launches :
         /\ launches[k].seg = k
         /\ launches[k].len = SegLength(api.segs[k])
         /\ launches[k].begin = api.segs[k].begin
         /\ launches[k].idx = api.segs[k].idx
         /\ launches[k].kernel = KernelOf("forall", api.segs[k].type)
    /\ \A c \in BagToSet(calls) :
         /\ c.l \in DOMAIN launches
         /\ Len(c.args) = 1
         /\ CopiesIn(c, calls) <= Positions(c.l, c.args[1])
    /\ pc = "returned" =>
         /\ Len(launches) = Len(api.segs)
         /\ \A k \in DOMAIN api.segs :
              \A j \in 0 .. (SegLength(api.segs[k]) - 1) :
                LET v == SegItem(api.segs[k], j)
                IN  Times(k, <<v>>) = Positions(k, v)
         /\ BagCardinality(calls) = TotalLength(api.segs)

\* An uncounted walk over the list segment <<1, 1>> followed by the range
\* segment (0, 2) has returned.
C19_Witness ==
  /\ IsWalk /\ api.fn = "forall" /\ Len(api.segs) = 2
  /\ api.segs[1].type = "ListSegment" /\ api.segs[1].idx = <<1, 1>>
  /\ api.segs[2].type = "RangeSegment" /\ api.segs[2].begin = 0 /\ api.segs[2].end = 2
  /\ pc = "returned"
  /\ Times(1, <<1>>) = 2 /\ Times(2, <<0>>) = 1 /\ Times(2, <<1>>) = 1

\* C20: when a walk, counted or not, has returned, one kernel has been
\* launched for each of the N segments, every one of them was accepted, has
\* run all its work items without a fault, and no work item is pending.
C20_ReturnedWalkHasCompleted ==
  (IsWalk /\ pc = "returned") =>
    /\ Len(launches) = Len(api.segs)
    /\ \A k \in DOMAIN api.segs : Completed(k)
    /\ pending = {} /\ ~devFault
    /\ BagCardinality(calls) = TotalLength(api.segs)

\* A counted walk over two segments of length 2 has returned.
C20_Witness ==
  /\ IsWalk /\ api.fn = "forall_Icount" /\ Len(api.segs) = 2
  /\ SegLength(api.segs[1]) = 2 /\ SegLength(api.segs[2]) = 2
  /\ pc = "returned" /\ Completed(1) /\ Completed(2)

\* The indices of the caller's domain a call of loop_body may name, and
\* whether an invocation names one of them (its last argument, for a range).
InDomain(c) ==
  api.dom \in {"range", "RangeSegment"} =>
    c.args[Len(c.args)] \in api.begin .. (api.end - 1)

\* C21 (as claimed): for a length in [0, max Index_type] and a block size
\* >= 1, the ii a work item stores in Index_type never passes the guard when
\* its true index is >= len: loop_body is only ever called on indices of the
\* domain and only positions 0 .. len-1 of an indirection array are read, also
\* when gridSize * BLOCK_SIZE exceeds max Index_type.
C21_NoWrappedIndexPassesGuard ==
  (IsDispatch /\ api.B >= 1 /\ DomainLength >= 0 /\ DomainLength <= IndexMax) =>
    /\ \A c \in BagToSet(calls) : InDomain(c)
    /\ \A r \in reads : r.pos \in 0 .. (DomainLength - 1)

\* C22 (as claimed): a dispatch on a domain of negative length, end < begin
\* or len < 0, calls loop_body on no index and reads no element of idx,
\* whatever grid the unsigned computation of gridSize yields.
C22_NegativeLengthInvokesNothing ==
  (IsDispatch /\ DomainLength < 0) => (calls = EmptyBag /\ reads = {})

=============================================================================
